---------------------------- MODULE Spec2Model ----------------------------
(***************************************************************************)
(* The watch/build coordinator of src/Eleventy.js: the notification         *)
(* handler watchRun, the cycle driver _watch, the config-reset gate         *)
(* _shouldResetConfig and the build session executeBuild.                   *)
(*                                                                         *)
(* JavaScript runs one call chain at a time.  A chain is suspended only at *)
(* an await; watcher notifications and timer callbacks are macrotasks and  *)
(* run only while the chain in flight is suspended (or no chain exists).   *)
(* pc is the position of the chain in flight.                              *)
(***************************************************************************)
EXTENDS Integers, Sequences, FiniteSets, TLC

\* ------------------------------------------------------------------ bounds
\* Notifications delivered by the filesystem watcher in one run.
MaxNotifs == 3
\* Longest queue handed to a direct call of the config-reset gate.
MaxQueueLen == 2
\* Programmatic executeBuild calls that may overlap.
NumCallers == 2
\* Template result groups in a write result, and entries in a group.
MaxGroups == 2
MaxGroupLen == 2
\* _cache calls in one run.
MaxCacheCalls == 2

\* ------------------------------------------------------------------- paths
\* A path is a sequence of tokens: ".", a separator, or a name.
DotSlash == <<".", "/">>

StartsWith(p, pre) ==
    /\ Len(p) >= Len(pre)
    /\ SubSeq(p, 1, Len(pre)) = pre

\* Paths as the filesystem watcher reports them.
RawPaths ==
    { <<"cfg.js">>,
      <<".", "/", "cfg.js">>,
      <<"alt.js">>,
      <<"src", "/", "lib.js">>,
      <<"src", "\\", "lib.js">>,
      <<"a.css">>,
      <<"_includes", "/", "b.css">>,
      <<"t.js">> }

Platforms == {"posix", "win32"}

\* path.sep of the platform
PathSep(os) == IF os = "win32" THEN "\\" ELSE "/"

\* TemplatePath.addLeadingDotSlash: a path that already starts with "./"
\* is kept, any other (relative) path gets the prefix.
addLeadingDotSlash(p) ==
    IF StartsWith(p, DotSlash) THEN p ELSE DotSlash \o p

\* PathNormalizer.normalizeSeperator: every platform separator becomes "/".
normalizeSeperator(os, p) ==
    [i \in 1..Len(p) |-> IF p[i] = PathSep(os) THEN "/" ELSE p[i]]

\* TemplatePath.normalize: platform separators become "/", and a leading
\* "./" is dropped (path.normalize).
TemplatePathNormalize(os, p) ==
    LET q == normalizeSeperator(os, p)
    IN  IF StartsWith(q, DotSlash) THEN SubSeq(q, 3, Len(q)) ELSE q

\* The normalized form used for queue membership and config-set lookups.
NormalizedPath(os, p) == normalizeSeperator(os, addLeadingDotSlash(p))

\* ------------------------------------------------------- dependency graph
\* eleventyConfig.getLocalProjectConfigFiles(): declared config entries,
\* in declaration order, normalized.
ConfigFilePaths == << <<".", "/", "cfg.js">>, <<".", "/", "alt.js">> >>

\* The graphs the watch targets may hold: forward edges file -> files it
\* depends on.  "./x.11ty.js" is a template.
Template == <<".", "/", "x.11ty.js">>
LibJs == <<".", "/", "src", "/", "lib.js">>
TJs == <<".", "/", "t.js">>

GraphNodes == {ConfigFilePaths[1], ConfigFilePaths[2], Template}

Graphs ==
    { [n \in GraphNodes |-> IF n = ConfigFilePaths[2] THEN {LibJs}
                            ELSE IF n = Template THEN {TJs} ELSE {}],
      [n \in GraphNodes |-> IF n = Template THEN {TJs, LibJs} ELSE {}] }

\* watchTargets.getDependenciesOf(path): forward lookup.
getDependenciesOf(g, path) == IF path \in DOMAIN g THEN g[path] ELSE {}


\* -------------------------------------------------------- config-reset gate
\* The elements of a sequence, as a set.
Range(q) == {q[i] : i \in 1..Len(q)}

\* Faulty variant of the gate that forgets the second loop over the
\* dependencies of the config entries.
shouldTriggerConfigResetEntriesOnly(g, changedFiles) ==
    \E i \in 1..Len(changedFiles) : changedFiles[i] \in Range(ConfigFilePaths)

\* shouldTriggerConfigReset(changedFiles): first loop, a changed file is a
\* declared config entry; second loop, per config entry, a changed file is
\* one of its dependencies.
shouldTriggerConfigReset(g, changedFiles) ==
    LET configFilePaths == Range(ConfigFilePaths)
    IN  \/ \E i \in 1..Len(changedFiles) : changedFiles[i] \in configFilePaths
        \/ \E configFilePath \in configFilePaths :
              LET configFileDependencies == getDependenciesOf(g, configFilePath)
              IN  \E i \in 1..Len(changedFiles) :
                     changedFiles[i] \in configFileDependencies

\* _shouldResetConfig(activeQueue = []): false on an empty queue, else the
\* gate on the normalized paths.
_shouldResetConfig(os, g, activeQueue) ==
    IF Len(activeQueue) = 0
    THEN FALSE
    ELSE shouldTriggerConfigReset(g,
            [i \in 1..Len(activeQueue) |->
                normalizeSeperator(os, addLeadingDotSlash(activeQueue[i]))])

\* ---------------------------------------------------------- css-only check
\* eleventyFiles.getIncludesDir()
IncludesDir == <<".", "/", "_includes">>

\* The file names that end with ".css".
CssNames == {"a.css", "b.css"}

\* path.endsWith(".css")
endsWithCss(path) == Len(path) > 0 /\ path[Len(path)] \in CssNames

\* TemplatePath.startsWithSubPath(path, subPath): both are normalized.
startsWithSubPath(o, path, subPath) ==
    StartsWith(TemplatePathNormalize(o, path),
               TemplatePathNormalize(o, subPath))

\* Faulty variant of the callback that forgets the includes directory.
IsCssInputAnywhere(o, path) == endsWithCss(path)

\* The callback of onlyCssChanges: a CSS input file that is not in the
\* includes folder.
IsCssInput(o, path) ==
    /\ endsWithCss(path)
    /\ ~startsWithSubPath(o, path, IncludesDir)

\* ------------------------------------------------------------ init options
\* Faulty variant of init that synchronizes the cache whatever the option.
InitSyncsAlways(viaConfigReset) == 1

\* init(options): the number of _cache("TemplateWriter", this.writer)
\* calls made for the writer it creates.
InitSyncs(viaConfigReset) == IF ~viaConfigReset THEN 1 ELSE 0

\* ------------------------------------------------------------------- state
VARIABLES
    os,            \* platform the process runs on
    graph,         \* forward edges held by watchTargets
    source,        \* this.source: "script" (programmatic) or "cli"
    pc,            \* position of the call chain in flight
    caller,        \* who awaits executeBuild: "watch" or "_watch"
    needsInit,     \* this.needsInit
    isActive,      \* watchManager: a build is running
    activeQueue,   \* watchManager: paths owned by the cycle in flight
    pendingQueue,  \* watchManager: paths not yet assigned to a cycle
    timerSet,      \* the timeout stored in watchDelay is pending
    timerArg,      \* isResetConfig captured by the pending timeout's callback
    isResetConfig, \* argument of the _watch call in flight
    ret,           \* executeBuild: ret ("none", "ok", "error")
    thrown,        \* class of the error being raised ("none", "base", "other")
    rethrow,       \* executeBuild: the catch block re-raises
    watcher,       \* chokidar watcher: "none", "open", "closed"
    serve,         \* reload layer (eleventyServe): "open", "closed"
    log,           \* errorHandler calls made since the latest cycle start
    sent,          \* latest call on the reload layer: "sendError", "reload"
    finishCount,   \* bench.finish() calls of the executeBuild call in flight
    didReset,      \* resetConfig ran in the cycle in flight
    inFlight,      \* cycles past the guard of _watch and not yet ended
    notifs,        \* notifications delivered so far
    lastNotif,     \* state the coordinator was in at the latest notification
    cyclesSince,   \* cycles started since the latest notification
    burst,         \* paths notified while no build ran, since the cycle start
    startedBy,     \* what started the cycle in flight: "timer" or "drain"
    payload,       \* argument of the eleventyServe.reload() call being awaited
    lastInit,      \* the init() call made by the chain in flight
    calls,         \* programmatic executeBuild(to) calls, one record each
    _initing,      \* this._initing: "unset", "pending", "resolved", "rejected"
    initPc,        \* position of the init() call behind this._initing
    initCount,     \* init() invocations made by executeBuild
    hasWriter,     \* this.writer is set
    dirListener,   \* "eleventy.directories" listener: "none", "pending", "done"
    pathPrefix,    \* config.pathPrefix, normalized
    writeRet,      \* what writer.write() resolved to
    ebRet,         \* what executeBuild("fs") returned
    urlOf,         \* the url property of each template result entry
    templates,     \* build.templates of the reload payload
    resultPc,      \* how far that result has travelled
    privateCaches, \* this._privateCaches
    cacheKey,      \* key of the latest _cache call
    cacheArg,      \* instance as it was passed to the latest _cache call
    cacheInst,     \* that instance as the call left it
    cacheThrew,    \* the latest _cache call threw
    cacheCalls,    \* _cache calls made so far
    allTargets,    \* watchTargets: every target recorded so far
    newTargets,    \* watchTargets: targets added since the last reset()
    staleTargets,  \* that delta as it was when write() returned
    foundTargets,  \* targets added by _initWatchDependencies in this cycle
    handed,        \* arguments of the watcher.add calls of this cycle
    wtResets,      \* watchTargets.reset() calls of this cycle
    tailError,     \* writeResults carries an error
    tailPc,        \* position after write(): "written", "deps", "added"
    fsIndex,       \* fileSystemSearch: the paths it knows to exist
    lastKind,      \* kind of the latest watcher event: change, add, unlink
    lastPath,      \* path of the latest watcher event, as reported
    gateQueue,     \* argument of a direct call of _shouldResetConfig
    gateDone,      \* that call has returned
    gateRet        \* its return value

vars == <<os, graph, source, pc, caller, needsInit, isActive, activeQueue,
          pendingQueue, timerSet, timerArg, isResetConfig, ret, thrown,
          rethrow, watcher, serve, log, sent, finishCount, didReset, inFlight,
          notifs, lastNotif, cyclesSince, burst, startedBy, payload, lastInit,
          calls, _initing, initPc, initCount, hasWriter, dirListener,
          pathPrefix, writeRet, ebRet, urlOf, templates, resultPc,
          privateCaches, cacheKey, cacheArg, cacheInst, cacheThrew,
          cacheCalls, allTargets, newTargets, staleTargets, foundTargets,
          handed, wtResets, tailError, tailPc, fsIndex, lastKind, lastPath,
          gateQueue, gateDone, gateRet>>

\* What the environment fixes at start.
envVars == <<os, graph, source>>
\* A direct call of the config-reset gate.
gateVars == <<gateQueue, gateDone, gateRet>>
\* The watch manager.
wmVars == <<isActive, activeQueue, pendingQueue>>
\* The debounce timer.
timerVars == <<timerSet, timerArg>>
\* The executeBuild call in flight.
ebVars == <<caller, needsInit, ret, rethrow, finishCount>>
\* Bookkeeping of notifications.
notifVars == <<notifs, lastNotif, burst>>
\* Bookkeeping of the cycle in flight.
cycleVars == <<isResetConfig, didReset, inFlight, cyclesSince, startedBy>>
\* Programmatic executeBuild calls and the initialization they share.
apiVars == <<calls, _initing, initPc, initCount, hasWriter, dirListener>>
\* A build result on its way from the write pipeline to the reload payload.
resultVars == <<pathPrefix, writeRet, ebRet, urlOf, templates, resultPc>>
\* The carryover cache.
cacheVars == <<privateCaches, cacheKey, cacheArg, cacheInst, cacheThrew,
               cacheCalls>>
\* The steps of a cycle between write() and the reload.
tailVars == <<allTargets, newTargets, staleTargets, foundTargets, handed,
              wtResets, tailError, tailPc>>
\* The watcher events by kind, and the existence index.
handlerVars == <<fsIndex, lastKind, lastPath>>
\* What a run of watch() leaves alone.
sideVars == <<apiVars, resultVars, cacheVars, tailVars, handlerVars>>
\* The watch coordinator, but for needsInit.
coordVars == <<envVars, pc, caller, ret, rethrow, finishCount, wmVars,
               timerVars, cycleVars, thrown, watcher, serve, log, sent,
               notifVars, payload, lastInit>>

Sources == {"script", "cli"}
ErrorClasses == {"base", "other"}

\* Positions at which the chain in flight is suspended at an await.
AwaitPcs == {"eb_init", "eb_before", "eb_write", "eb_after", "initWatch",
             "w_beforeWatch", "w_resetConfig", "w_init", "w_deps", "w_reload"}
\* Positions inside a cycle of _watch.
CyclePcs == {"w_beforeWatch", "w_resetConfig", "w_init", "w_deps", "w_reload"}
\* Positions inside executeBuild.
BuildPcs == {"eb_init", "eb_before", "eb_write", "eb_after", "eb_catch",
             "eb_finally", "eb_exit"}

\* A macrotask (notification, timer callback, signal) can run.
MacrotaskCanRun == pc = "idle" \/ pc \in AwaitPcs

InitRest ==
    /\ os \in Platforms
    /\ graph \in Graphs
    /\ source \in Sources
    /\ pc = "new"
    /\ caller = "none"
    /\ needsInit = TRUE
    /\ isActive = FALSE
    /\ activeQueue = {}
    /\ pendingQueue = {}
    /\ timerSet = FALSE
    /\ timerArg = FALSE
    /\ isResetConfig = FALSE
    /\ ret = "none"
    /\ thrown = "none"
    /\ rethrow = FALSE
    /\ watcher = "none"
    /\ serve = "open"
    /\ log = {}
    /\ sent = "none"
    /\ finishCount = 0
    /\ didReset = FALSE
    /\ inFlight = 0
    /\ notifs = 0
    /\ lastNotif = "none"
    /\ cyclesSince = 0
    /\ burst = {}
    /\ startedBy = "none"
    /\ payload = <<>>
    /\ lastInit = <<>>
    /\ gateDone = FALSE
    /\ gateRet = FALSE

\* ------------------------------------------- programmatic executeBuild calls
\* write(), toJSON(), toNDJSON() and executeBuild(to) called by a script,
\* possibly while an earlier call is still suspended.
Callers == 1..NumCallers

\* The output targets executeBuild knows.
Targets == {"fs", "json", "ndjson"}

\* What a caller may pass as `to`.
ToArgs == Targets \cup {"xml"}

\* A call that has not been made yet.  before, wrote and after count the
\* before-build emits, the write pipeline invocations and the after-build
\* emits of the call; finish counts bench.finish(); summary holds the colors
\* of the summary lines printed; fatal is set when the missing writer was
\* reported; initAtCall is this._initing as the call found it; failedAt is
\* the awaited step at which the try block threw.
IdleCall ==
    [pc |-> "idle", to |-> "none", before |-> 0, wrote |-> 0, after |-> 0,
     finish |-> 0, summary |-> <<>>, result |-> "none", fatal |-> FALSE,
     initAtCall |-> "none", failedAt |-> "none"]

ApiIdle ==
    /\ calls = [c \in Callers |-> IdleCall]
    /\ _initing = "unset"
    /\ initPc = "none"
    /\ initCount = 0
    /\ hasWriter = FALSE
    /\ dirListener = "none"

\* No build result is under way.
ResultIdle ==
    /\ pathPrefix = <<>>
    /\ writeRet = <<>>
    /\ ebRet = <<>>
    /\ urlOf = <<>>
    /\ templates = <<>>
    /\ resultPc = "none"

\* The carryover cache: keys, property names and values.
CacheKeys == {"TemplateWriter", "Other"}
Fields == {"a", "b"}
Values == {"v1", "v2", "undefined"}

\* The objects passed to _cache: whether they have a `caches` property,
\* the property names it lists, and their own properties.
Instances ==
    {inst \in [declares : BOOLEAN, caches : SUBSET Fields,
               props : [Fields -> Values]] :
        ~inst.declares => inst.caches = {}}

\* No instance, and the empty cache map.
NoInstance == [declares |-> FALSE, caches |-> {}, props |-> <<>>]
NoCaches == [k \in {} |-> <<>>]

\* No _cache call was made.
CacheIdle ==
    /\ privateCaches = NoCaches
    /\ cacheKey = "none"
    /\ cacheArg = NoInstance
    /\ cacheInst = NoInstance
    /\ cacheThrew = FALSE
    /\ cacheCalls = 0

\* The names of the targets _initWatchDependencies may add.
WatchTargetNames == {"package.json", "_data/site.js", "lib/util.js"}

\* No cycle is between write() and the reload.
TailIdle ==
    /\ allTargets = {}
    /\ newTargets = {}
    /\ staleTargets = {}
    /\ foundTargets = {}
    /\ handed = <<>>
    /\ wtResets = 0
    /\ tailError = FALSE
    /\ tailPc = "none"

\* No watcher event was delivered.
HandlerIdle ==
    /\ fsIndex = {}
    /\ lastKind = "none"
    /\ lastPath = <<>>

\* The side specifications are idle.
SideIdle ==
    /\ ApiIdle
    /\ ResultIdle
    /\ CacheIdle
    /\ TailIdle
    /\ HandlerIdle

\* The state after construction.
Init ==
    /\ InitRest
    /\ gateQueue = <<>>
    /\ SideIdle

\* ----------------------------------------------------------- watch manager
RECURSIVE SetToSeq(_)
SetToSeq(S) ==
    IF S = {} THEN <<>>
    ELSE LET x == CHOOSE y \in S : TRUE IN <<x>> \o SetToSeq(S \ {x})

\* watchManager.getActiveQueue(), as an array.
getActiveQueue == SetToSeq(activeQueue)

\* watchManager.hasAllQueueFiles(callback): the callback, given as the
\* function from paths to its results, holds of every path of the active
\* queue.
hasAllQueueFiles(callback) == \A path \in activeQueue : callback[path]

\* watchManager.isBuildRunning()
isBuildRunning == isActive

\* watchManager.getPendingQueueSize()
getPendingQueueSize == Cardinality(pendingQueue)

\* watchManager.addToPendingQueue(path): the normalized path joins the
\* queue, which holds no duplicates.
addToPendingQueue(path) == pendingQueue \cup {NormalizedPath(os, path)}

\* watchManager.setBuildRunning(): the flag is set and the queue becomes
\* the active queue of the cycle.
setBuildRunning ==
    /\ isActive' = TRUE
    /\ activeQueue' = pendingQueue
    /\ pendingQueue' = {}

\* watchManager.setBuildFinished(): the flag is cleared; no cycle owns an
\* active queue any more.
setBuildFinished ==
    /\ isActive' = FALSE
    /\ activeQueue' = {}
    /\ pendingQueue' = pendingQueue

\* ------------------------------------------------------------- _watch entry
\* Faulty variant of the guard that never returns early.
WatchGuardNever == FALSE

\* The guard of _watch: return at once while a build is running.
WatchGuard == isBuildRunning

\* _watch past its guard, up to its first await: the cycle owns the queue.
\* n is the number of cycles in flight just before.
StartCycle(arg, by, n) ==
    /\ setBuildRunning
    /\ isResetConfig' = arg
    /\ pc' = "w_beforeWatch"
    /\ didReset' = FALSE
    /\ inFlight' = n + 1
    /\ cyclesSince' = cyclesSince + 1
    /\ startedBy' = by
    /\ log' = {}
    /\ payload' = <<>>
    /\ lastInit' = <<>>

\* ------------------------------------------------- watcher.on(change | add)
\* isResetConfig as watchRun computes it for one notification.
WatchRunResetArg(path) == _shouldResetConfig(os, graph, <<path>>)

\* watchRun(path): the path is queued, the pending timeout is cleared and a
\* new one is set whose callback captures isResetConfig.
watchRun(raw) ==
    /\ watcher = "open"
    /\ MacrotaskCanRun
    /\ notifs < MaxNotifs
    /\ LET path == TemplatePathNormalize(os, raw)
       IN  /\ pendingQueue' = addToPendingQueue(path)
           /\ timerSet' = TRUE
           /\ timerArg' = WatchRunResetArg(path)
           /\ burst' = IF isActive THEN burst
                       ELSE burst \cup {NormalizedPath(os, path)}
    /\ notifs' = notifs + 1
    /\ lastNotif' = IF isActive THEN "midbuild" ELSE "idle"
    /\ cyclesSince' = 0
    /\ UNCHANGED <<gateVars, apiVars, resultVars, cacheVars, tailVars,
                   payload, lastInit, serve, sent, envVars, pc, ebVars,
                   isActive, activeQueue, isResetConfig, didReset, inFlight,
                   startedBy, thrown, watcher, log>>

\* A change or add event of the watcher; the existence index is followed
\* where the kinds of events are told apart.
Notify(raw) ==
    /\ watchRun(raw)
    /\ UNCHANGED handlerVars

\* The timeout fires: _watch(isResetConfig) is called.
TimerFire ==
    /\ timerSet
    /\ MacrotaskCanRun
    /\ timerSet' = FALSE
    /\ timerArg' = FALSE
    /\ IF WatchGuard
       THEN UNCHANGED <<wmVars, pc, cycleVars, log, payload, lastInit>>
       ELSE StartCycle(timerArg, "timer", inFlight)
    /\ UNCHANGED <<gateVars, sideVars, serve, sent, envVars, ebVars, thrown,
                   watcher, notifVars>>

\* ------------------------------------------------------------ executeBuild
\* executeBuild("fs") is entered by `who`: initialization is awaited when
\* it is still needed, else the try block is entered.
EnterExecuteBuild(who) ==
    /\ caller' = who
    /\ ret' = "none"
    /\ rethrow' = FALSE
    /\ finishCount' = 0
    /\ needsInit' = needsInit
    /\ pc' = IF needsInit THEN "eb_init" ELSE "eb_before"

\* watch(): the initial build.
Watch ==
    /\ pc = "new"
    /\ EnterExecuteBuild("watch")
    /\ UNCHANGED <<gateVars, sideVars, payload, lastInit, serve, sent,
                   envVars, wmVars, timerVars, cycleVars, thrown, watcher,
                   log, notifVars>>

\* await this._initing resolves.
InitDone ==
    /\ pc = "eb_init"
    /\ lastInit' = <<[viaConfigReset |-> FALSE, writers |-> 1,
                      syncs |-> InitSyncs(FALSE)]>>
    /\ needsInit' = FALSE
    /\ pc' = "eb_before"
    /\ UNCHANGED <<gateVars, sideVars, payload, serve, sent, envVars, caller,
                   ret, rethrow, finishCount, wmVars, timerVars, cycleVars,
                   thrown, watcher, log, notifVars>>

\* await this._initing rejects: executeBuild rejects before its try block.
InitThrow(e) ==
    /\ pc = "eb_init"
    /\ thrown' = e
    /\ pc' = "rejected"
    /\ UNCHANGED <<gateVars, sideVars, payload, lastInit, serve, sent,
                   envVars, ebVars, wmVars, timerVars, cycleVars, watcher,
                   log, notifVars>>

\* A step of the try block completes: the before-build listeners, the
\* write pipeline, the after-build listeners.
BuildStep ==
    /\ \/ pc = "eb_before" /\ pc' = "eb_write" /\ ret' = ret
       \/ pc = "eb_write" /\ pc' = "eb_after" /\ ret' = "ok"
       \/ pc = "eb_after" /\ pc' = "eb_finally" /\ ret' = ret
    /\ UNCHANGED <<gateVars, sideVars, payload, lastInit, serve, sent,
                   envVars, caller, needsInit, rethrow, finishCount, wmVars,
                   timerVars, cycleVars, thrown, watcher, log, notifVars>>

\* A step of the try block throws e.
BuildThrow(e) ==
    /\ pc \in {"eb_before", "eb_write", "eb_after"}
    /\ thrown' = e
    /\ pc' = "eb_catch"
    /\ UNCHANGED <<gateVars, sideVars, payload, lastInit, serve, sent,
                   envVars, ebVars, wmVars, timerVars, cycleVars, watcher,
                   log, notifVars>>

\* Faulty variant that re-raises whatever the source is.
CatchRethrowsAlways == TRUE

\* The catch block re-raises for programmatic use only.
CatchRethrows == source = "script"

\* Faulty variant of the catch block whose re-raise leaves executeBuild
\* without passing through the finally block.
CatchSkipsFinally ==
    /\ pc = "eb_catch"
    /\ ret' = "error"
    /\ IF CatchRethrows
       THEN /\ log' = log \cup {"error:writing"}
            /\ rethrow' = TRUE
            /\ thrown' = thrown
            /\ pc' = "eb_exit"
       ELSE /\ log' = log \cup {"fatal:writing"}
            /\ rethrow' = FALSE
            /\ thrown' = "none"
            /\ pc' = "eb_finally"
    /\ UNCHANGED <<gateVars, sideVars, payload, lastInit, serve, sent,
                   envVars, caller, needsInit, finishCount, wmVars, timerVars,
                   cycleVars, watcher, notifVars>>

\* catch (e): ret carries the error; it is reported and, for programmatic
\* use, re-raised.
Catch ==
    /\ pc = "eb_catch"
    /\ ret' = "error"
    /\ IF CatchRethrows
       THEN /\ log' = log \cup {"error:writing"}
            /\ rethrow' = TRUE
            /\ thrown' = thrown
       ELSE /\ log' = log \cup {"fatal:writing"}
            /\ rethrow' = FALSE
            /\ thrown' = "none"
    /\ pc' = "eb_finally"
    /\ UNCHANGED <<gateVars, sideVars, payload, lastInit, serve, sent,
                   envVars, caller, needsInit, finishCount, wmVars, timerVars,
                   cycleVars, watcher, notifVars>>

\* finally: the benchmarks are finished and the summary line is printed.
Finally ==
    /\ pc = "eb_finally"
    /\ finishCount' = finishCount + 1
    /\ pc' = "eb_exit"
    /\ UNCHANGED <<gateVars, sideVars, payload, lastInit, serve, sent,
                   envVars, caller, needsInit, ret, rethrow, wmVars,
                   timerVars, cycleVars, thrown, watcher, log, notifVars>>

\* Faulty variant in which watch() does not look at the result.
ExecuteBuildExitIgnoresResult ==
    /\ pc = "eb_exit"
    /\ IF caller = "watch"
       THEN /\ pc' = IF rethrow
                   THEN "rejected" ELSE "initWatch"
            /\ inFlight' = inFlight
       ELSE IF rethrow
            THEN /\ pc' = "w_catch"
                 /\ inFlight' = inFlight - 1
            ELSE /\ pc' = "w_deps"
                 /\ inFlight' = inFlight
    /\ UNCHANGED <<gateVars, sideVars, payload, lastInit, serve, sent,
                   envVars, ebVars, wmVars, timerVars, isResetConfig,
                   didReset, cyclesSince, startedBy, thrown, watcher, log,
                   notifVars>>

\* executeBuild returns ret, or raises, to its caller.  watch() rejects on
\* a raised error and on a result that carries an error, else goes on to
\* initWatch.  _watch goes on to the dependency step, or the error leaves it.
ExecuteBuildExit ==
    /\ pc = "eb_exit"
    /\ IF caller = "watch"
       THEN /\ pc' = IF rethrow \/ ret = "error"
                   THEN "rejected" ELSE "initWatch"
            /\ inFlight' = inFlight
       ELSE IF rethrow
            THEN /\ pc' = "w_catch"
                 /\ inFlight' = inFlight - 1
            ELSE /\ pc' = "w_deps"
                 /\ inFlight' = inFlight
    /\ UNCHANGED <<gateVars, sideVars, payload, lastInit, serve, sent,
                   envVars, ebVars, wmVars, timerVars, isResetConfig,
                   didReset, cyclesSince, startedBy, thrown, watcher, log,
                   notifVars>>

\* watch(): initWatch resolves, the watcher is created and its handlers
\* are registered.
InitWatchDone ==
    /\ pc = "initWatch"
    /\ isActive' = FALSE
    /\ activeQueue' = {}
    /\ pendingQueue' = {}
    /\ watcher' = "open"
    /\ lastInit' = <<>>
    /\ pc' = "idle"
    /\ UNCHANGED <<gateVars, sideVars, payload, serve, sent, envVars, ebVars,
                   timerVars, cycleVars, thrown, log, notifVars>>

\* ------------------------------------------------------------ _watch cycle
\* onlyCssChanges of the cycle in flight.
onlyCssChanges ==
    hasAllQueueFiles([path \in activeQueue |-> IsCssInput(os, path)])

\* The queue decides whether _watch calls itself again.
DrainAgain == getPendingQueueSize > 0

\* The end of a cycle, after `what` (sendError or reload) went to the reload
\* layer: setBuildFinished(), then either _watch() again for the paths that
\* arrived meanwhile (its guard finds the flag cleared), or "Watching...".
FinishCycle(what) ==
    /\ IF DrainAgain
       THEN StartCycle(FALSE, "drain", inFlight - 1)
       ELSE /\ setBuildFinished
            /\ pc' = "idle"
            /\ inFlight' = inFlight - 1
            /\ isResetConfig' = FALSE
            /\ didReset' = FALSE
            /\ startedBy' = "none"
            /\ payload' = <<>>
            /\ lastInit' = <<>>
            /\ UNCHANGED <<cyclesSince, log>>
    /\ sent' = what
    /\ burst' = {}
    /\ UNCHANGED <<gateVars, sideVars, serve, envVars, ebVars, timerVars,
                   thrown, watcher, notifs, lastNotif>>

\* Faulty variant that goes on to init() without resetting the config.
BeforeWatchDoneSkipsReset ==
    /\ pc = "w_beforeWatch"
    /\ pc' = "w_init"
    /\ UNCHANGED <<gateVars, sideVars, payload, lastInit, serve, sent,
                   envVars, ebVars, wmVars, timerVars, cycleVars, thrown,
                   watcher, log, notifVars>>

\* beforeWatch listeners are done: the configuration is reset if asked
\* for, else restart() and init() follow.
BeforeWatchDone ==
    /\ pc = "w_beforeWatch"
    /\ pc' = IF isResetConfig THEN "w_resetConfig" ELSE "w_init"
    /\ UNCHANGED <<gateVars, sideVars, payload, lastInit, serve, sent,
                   envVars, ebVars, wmVars, timerVars, cycleVars, thrown,
                   watcher, log, notifVars>>

\* resetConfig() is done; restart() and init({viaConfigReset}) follow.
ResetConfigDone ==
    /\ pc = "w_resetConfig"
    /\ didReset' = TRUE
    /\ pc' = "w_init"
    /\ UNCHANGED <<gateVars, sideVars, payload, lastInit, serve, sent,
                   envVars, ebVars, wmVars, timerVars, isResetConfig,
                   inFlight, cyclesSince, startedBy, thrown, watcher, log,
                   notifVars>>

\* init() is done (it clears needsInit); write() enters executeBuild.
CycleInitDone ==
    /\ pc = "w_init"
    /\ caller' = "_watch"
    /\ ret' = "none"
    /\ rethrow' = FALSE
    /\ finishCount' = 0
    /\ needsInit' = FALSE
    /\ lastInit' = <<[viaConfigReset |-> isResetConfig, writers |-> 1,
                      syncs |-> InitSyncs(isResetConfig)]>>
    /\ pc' = "eb_before"
    /\ UNCHANGED <<gateVars, sideVars, payload, serve, sent, envVars, wmVars,
                   timerVars, cycleVars, thrown, watcher, log, notifVars>>

\* Faulty variant that reloads whatever the result.
DepsDoneAlwaysReload ==
    /\ pc = "w_deps"
    /\ pc' = "w_reload"
    /\ sent' = "reload"
    /\ payload' =
          <<[files |-> getActiveQueue,
             subtype |-> IF onlyCssChanges THEN "css" ELSE "undefined"]>>
    /\ UNCHANGED <<gateVars, sideVars, lastInit, serve, envVars, ebVars,
                   wmVars, timerVars, cycleVars, thrown, watcher, log,
                   notifVars>>

\* _initWatchDependencies() is done.  A result with an error is forwarded
\* (sendError does not suspend) and the cycle ends; else reload is awaited.
DepsDone ==
    /\ pc = "w_deps"
    /\ IF ret = "error"
       THEN FinishCycle("sendError")
       ELSE /\ pc' = "w_reload"
            /\ sent' = "reload"
            /\ payload' =
                  <<[files |-> getActiveQueue,
                     subtype |-> IF onlyCssChanges THEN "css"
                                 ELSE "undefined"]>>
            /\ UNCHANGED <<gateVars, sideVars, lastInit, serve, envVars,
                           ebVars, wmVars, timerVars, cycleVars, thrown,
                           watcher, log, notifVars>>

\* eleventyServe.reload() resolves: the cycle ends.
ReloadDone ==
    /\ pc = "w_reload"
    /\ FinishCycle("reload")

\* An awaited step of the cycle rejects with e: the error leaves _watch.
CycleThrow(e) ==
    /\ pc \in {"w_beforeWatch", "w_resetConfig", "w_init", "w_reload"}
    /\ thrown' = e
    /\ pc' = "w_catch"
    /\ inFlight' = inFlight - 1
    /\ UNCHANGED <<gateVars, sideVars, payload, lastInit, serve, sent,
                   envVars, ebVars, wmVars, timerVars, isResetConfig,
                   didReset, cyclesSince, startedBy, watcher, log, notifVars>>

\* stopWatch(): the reload layer and the watcher are closed and the
\* process exits.
stopWatch ==
    /\ serve' = "closed"
    /\ watcher' = "closed"
    /\ pc' = "stopped"

\* Faulty variant that takes every error for a recognized one.
IsRecognizedAny(e) == TRUE

\* e instanceof EleventyBaseError
IsRecognized(e) == e = "base"

\* The catch block of watchRun: a recognized error is logged and the flag
\* is cleared; any other error is fatal and stopWatch() ends the process.
WatchRunCatch ==
    /\ pc = "w_catch"
    /\ IF IsRecognized(thrown)
       THEN /\ log' = log \cup {"error:watch"}
            /\ setBuildFinished
            /\ pc' = "idle"
            /\ UNCHANGED <<watcher, serve>>
       ELSE /\ log' = log \cup {"fatal:watch"}
            /\ UNCHANGED wmVars
            /\ stopWatch
    /\ thrown' = "none"
    /\ isResetConfig' = FALSE
    /\ didReset' = FALSE
    /\ startedBy' = "none"
    /\ burst' = {}
    /\ payload' = <<>>
    /\ lastInit' = <<>>
    /\ UNCHANGED <<gateVars, sideVars, sent, envVars, ebVars, timerVars,
                   inFlight, cyclesSince, notifs, lastNotif>>

\* ------------------------------------------------------------ specification
Next ==
    \/ Watch
    \/ InitDone
    \/ \E e \in ErrorClasses : InitThrow(e)
    \/ BuildStep
    \/ \E e \in ErrorClasses : BuildThrow(e)
    \/ Catch
    \/ Finally
    \/ ExecuteBuildExit
    \/ InitWatchDone
    \/ \E raw \in RawPaths : Notify(raw)
    \/ TimerFire
    \/ BeforeWatchDone
    \/ ResetConfigDone
    \/ CycleInitDone
    \/ DepsDone
    \/ ReloadDone
    \/ \E e \in ErrorClasses : CycleThrow(e)
    \/ WatchRunCatch

Spec == Init /\ [][Next]_vars

\* Types of the state.
TypeOK ==
    /\ os \in Platforms /\ graph \in Graphs /\ source \in Sources
    /\ pc \in {"new", "idle", "initWatch", "w_catch", "rejected", "stopped"}
              \cup CyclePcs \cup BuildPcs
    /\ caller \in {"none", "watch", "_watch"}
    /\ needsInit \in BOOLEAN /\ isActive \in BOOLEAN
    /\ timerSet \in BOOLEAN /\ timerArg \in BOOLEAN
    /\ isResetConfig \in BOOLEAN /\ rethrow \in BOOLEAN /\ didReset \in BOOLEAN
    /\ ret \in {"none", "ok", "error"}
    /\ thrown \in {"none"} \cup ErrorClasses
    /\ watcher \in {"none", "open", "closed"}
    /\ serve \in {"open", "closed"}
    /\ finishCount \in 0..1
    /\ inFlight \in 0..1
    /\ notifs \in 0..MaxNotifs
    /\ lastNotif \in {"none", "idle", "midbuild"}
    /\ startedBy \in {"none", "timer", "drain"}
    /\ sent \in {"none", "sendError", "reload"}
    /\ log \subseteq {"error:writing", "fatal:writing", "error:watch",
                      "fatal:watch"}
    /\ Len(payload) <= 1 /\ Len(lastInit) <= 1
    /\ \A i \in 1..Len(payload) :
          payload[i].subtype \in {"css", "undefined"}
    /\ \A i \in 1..Len(lastInit) :
          lastInit[i].viaConfigReset \in BOOLEAN /\ lastInit[i].syncs \in 0..1
    /\ gateDone \in BOOLEAN /\ gateRet \in BOOLEAN
    /\ allTargets \subseteq WatchTargetNames
    /\ newTargets \subseteq allTargets
    /\ staleTargets \subseteq allTargets
    /\ foundTargets \subseteq allTargets
    /\ Len(handed) <= 1
    /\ wtResets \in 0..1
    /\ tailError \in BOOLEAN
    /\ tailPc \in {"none", "written", "deps", "added"}
    /\ fsIndex \subseteq RawPaths
    /\ lastKind \in {"none", "change", "add", "unlink"}
    /\ lastPath \in RawPaths \cup {<<>>}

\* Timers fire and awaited promises settle; whether a promise resolves or
\* rejects, and whether a notification arrives, is up to the environment.
Progress ==
    \/ Watch \/ InitDone \/ BuildStep \/ Catch \/ Finally \/ ExecuteBuildExit
    \/ InitWatchDone \/ BeforeWatchDone \/ ResetConfigDone \/ CycleInitDone
    \/ DepsDone \/ ReloadDone \/ WatchRunCatch

FairSpec == Spec /\ WF_vars(TimerFire) /\ WF_vars(Progress)

\* ------------------------------------------- the gate called on its own
GateQueues == UNION {[1..n -> RawPaths] : n \in 0..MaxQueueLen}

GateInit ==
    /\ InitRest
    /\ gateQueue \in GateQueues
    /\ SideIdle

\* _shouldResetConfig(gateQueue) is called and returns.
GateApply ==
    /\ ~gateDone
    /\ gateDone' = TRUE
    /\ gateRet' = _shouldResetConfig(os, graph, gateQueue)
    /\ UNCHANGED <<gateQueue, sideVars, payload, lastInit, serve, sent,
                   envVars, pc, ebVars, wmVars, timerVars, cycleVars, thrown,
                   watcher, log, notifVars>>

GateNext == GateApply

GateSpec == GateInit /\ [][GateNext]_vars

\* ------------------------------------------- programmatic executeBuild calls
\* Faulty variant that starts init() on every call that needs it.
StartsInitAlways == TRUE

\* if (!this._initing): no init() call has been made yet.
StartsInit == _initing = "unset"

\* Faulty variant that prints every summary line as a success.
SummaryColorAlwaysGreen(hasError) == "green"

\* The color of the summary line.
SummaryColor(hasError) == IF hasError THEN "red" ELSE "green"

\* The finally block prints the summary line for this target.
PrintsSummary(to) == to = "fs"

\* executeBuild from the writer check up to the await of the before-build
\* listeners: a missing writer is reported, and the call goes on.
EnterTry(rec) ==
    [rec EXCEPT !.fatal = ~hasWriter, !.before = @ + 1, !.pc = "eb_before"]

\* Faulty variant that emits the after-build notification on a failed pass
\* too.
CatchFinallyEmitsAfter(rec) ==
    LET prints == PrintsSummary(rec.to) /\ hasWriter
        raises == source = "script" \/ (PrintsSummary(rec.to) /\ ~hasWriter)
    IN  [rec EXCEPT !.result = "error",
                    !.failedAt = rec.pc,
                    !.after = @ + 1,
                    !.finish = @ + 1,
                    !.summary = IF prints
                                THEN Append(@, SummaryColor(TRUE)) ELSE @,
                    !.pc = IF raises THEN "raised" ELSE "returned"]

\* The catch and finally blocks, which do not suspend, and the exit of
\* executeBuild.  logFinished() throws when there is no writer.
CatchFinally(rec) ==
    LET prints == PrintsSummary(rec.to) /\ hasWriter
        raises == source = "script" \/ (PrintsSummary(rec.to) /\ ~hasWriter)
    IN  [rec EXCEPT !.result = "error",
                    !.failedAt = rec.pc,
                    !.finish = @ + 1,
                    !.summary = IF prints
                                THEN Append(@, SummaryColor(TRUE)) ELSE @,
                    !.pc = IF raises THEN "raised" ELSE "returned"]

\* The finally block and the return of a call whose try block completed.
FinallyReturn(rec) ==
    [rec EXCEPT !.finish = @ + 1,
                !.summary = IF PrintsSummary(rec.to) /\ hasWriter
                            THEN Append(@, SummaryColor(FALSE)) ELSE @,
                !.pc = IF PrintsSummary(rec.to) /\ ~hasWriter
                       THEN "raised" ELSE "returned"]

\* executeBuild(to) is called: initialization is started unless a call
\* before this one started it, and awaited; or the try block is entered.
Call(c, to) ==
    /\ calls[c].pc = "idle"
    /\ IF needsInit
       THEN /\ IF StartsInit
               THEN /\ _initing' = "pending"
                    /\ initPc' = "initializeConfig"
                    /\ initCount' = initCount + 1
               ELSE UNCHANGED <<_initing, initPc, initCount>>
            /\ calls' = [calls EXCEPT ![c] =
                            [@ EXCEPT !.pc = "eb_init", !.to = to,
                                      !.initAtCall = _initing]]
       ELSE /\ calls' = [calls EXCEPT ![c] =
                            EnterTry([@ EXCEPT !.to = to,
                                               !.initAtCall = _initing])]
            /\ UNCHANGED <<_initing, initPc, initCount>>
    /\ UNCHANGED <<needsInit, hasWriter, dirListener, tailVars, handlerVars,
                   coordVars, gateVars, resultVars, cacheVars>>

\* init(): an awaited step (initializeConfig, the listeners of
\* eleventy.config, eleventy.env) is done and the next one is awaited.
InitializeStep ==
    /\ initPc \in {"initializeConfig", "config", "env"}
    /\ initPc' = CASE initPc = "initializeConfig" -> "config"
                   [] initPc = "config" -> "env"
                   [] initPc = "env" -> "extensionmap"
    /\ UNCHANGED <<calls, _initing, initCount, needsInit, hasWriter,
                   dirListener, tailVars, handlerVars, coordVars, gateVars,
                   resultVars, cacheVars>>

\* init(): the listeners of eleventy.extensionmap are done; the rest runs
\* without suspending: eleventy.directories is emitted, the writer is
\* created, needsInit is cleared and the promise resolves.  A listener of
\* eleventy.directories that is asynchronous is still running then.
InitializeFinish(async) ==
    /\ initPc = "extensionmap"
    /\ dirListener' = IF async THEN "pending" ELSE "done"
    /\ hasWriter' = TRUE
    /\ needsInit' = FALSE
    /\ _initing' = "resolved"
    /\ initPc' = "done"
    /\ UNCHANGED <<calls, initCount, tailVars, handlerVars, coordVars,
                   gateVars, resultVars, cacheVars>>

\* Faulty variant that forgets the promise of a failed init().
InitializeThrowForgets ==
    /\ initPc \in {"initializeConfig", "config", "env", "extensionmap"}
    /\ _initing' = "unset"
    /\ initPc' = "failed"
    /\ UNCHANGED <<calls, initCount, needsInit, hasWriter, dirListener,
                   tailVars, handlerVars, coordVars, gateVars, resultVars,
                   cacheVars>>

\* init(): an awaited step rejects, and so does the promise.
InitializeThrow ==
    /\ initPc \in {"initializeConfig", "config", "env", "extensionmap"}
    /\ _initing' = "rejected"
    /\ initPc' = "failed"
    /\ UNCHANGED <<calls, initCount, needsInit, hasWriter, dirListener,
                   tailVars, handlerVars, coordVars, gateVars, resultVars,
                   cacheVars>>

\* The asynchronous listener of eleventy.directories completes.
DirListenerDone ==
    /\ dirListener = "pending"
    /\ dirListener' = "done"
    /\ UNCHANGED <<calls, _initing, initPc, initCount, needsInit, hasWriter,
                   tailVars, handlerVars, coordVars, gateVars, resultVars,
                   cacheVars>>

\* await this._initing resolves for call c: needsInit is cleared and the
\* try block is entered.
AwaitInitDone(c) ==
    /\ calls[c].pc = "eb_init"
    /\ _initing = "resolved"
    /\ needsInit' = FALSE
    /\ calls' = [calls EXCEPT ![c] = EnterTry(@)]
    /\ UNCHANGED <<_initing, initPc, initCount, hasWriter, dirListener,
                   tailVars, handlerVars, coordVars, gateVars, resultVars,
                   cacheVars>>

\* await this._initing rejects for call c: the call raises before its try
\* block.
AwaitInitThrow(c) ==
    /\ calls[c].pc = "eb_init"
    /\ _initing = "rejected"
    /\ calls' = [calls EXCEPT ![c] = [@ EXCEPT !.result = "error",
                                                !.pc = "raised"]]
    /\ UNCHANGED <<_initing, initPc, initCount, needsInit, hasWriter,
                   dirListener, tailVars, handlerVars, coordVars, gateVars,
                   resultVars, cacheVars>>

\* The before-build listeners of call c are done: the target selects the
\* write pipeline method; any other target throws, and so does the method
\* call on a writer that is not there.
BeforeDone(c) ==
    /\ calls[c].pc = "eb_before"
    /\ calls' = [calls EXCEPT ![c] =
                    IF @.to \in Targets /\ hasWriter
                    THEN [@ EXCEPT !.wrote = @ + 1, !.pc = "eb_write"]
                    ELSE CatchFinally(@)]
    /\ UNCHANGED <<_initing, initPc, initCount, needsInit, hasWriter,
                   dirListener, tailVars, handlerVars, coordVars, gateVars,
                   resultVars, cacheVars>>

\* The write pipeline of call c resolves: the after-build listeners are
\* awaited.
WriteDone(c) ==
    /\ calls[c].pc = "eb_write"
    /\ calls' = [calls EXCEPT ![c] = [@ EXCEPT !.result = "ok",
                                                !.after = @ + 1,
                                                !.pc = "eb_after"]]
    /\ UNCHANGED <<_initing, initPc, initCount, needsInit, hasWriter,
                   dirListener, tailVars, handlerVars, coordVars, gateVars,
                   resultVars, cacheVars>>

\* The after-build listeners of call c are done: finally, and return.
AfterDone(c) ==
    /\ calls[c].pc = "eb_after"
    /\ calls' = [calls EXCEPT ![c] = FinallyReturn(@)]
    /\ UNCHANGED <<_initing, initPc, initCount, needsInit, hasWriter,
                   dirListener, tailVars, handlerVars, coordVars, gateVars,
                   resultVars, cacheVars>>

\* An awaited step of the try block of call c rejects.
CallThrow(c) ==
    /\ calls[c].pc \in {"eb_before", "eb_write", "eb_after"}
    /\ calls' = [calls EXCEPT ![c] = CatchFinally(@)]
    /\ UNCHANGED <<_initing, initPc, initCount, needsInit, hasWriter,
                   dirListener, tailVars, handlerVars, coordVars, gateVars,
                   resultVars, cacheVars>>

ApiNext ==
    \/ \E c \in Callers, to \in ToArgs : Call(c, to)
    \/ InitializeStep
    \/ \E async \in BOOLEAN : InitializeFinish(async)
    \/ InitializeThrow
    \/ DirListenerDone
    \/ \E c \in Callers : AwaitInitDone(c)
    \/ \E c \in Callers : AwaitInitThrow(c)
    \/ \E c \in Callers : BeforeDone(c)
    \/ \E c \in Callers : WriteDone(c)
    \/ \E c \in Callers : AfterDone(c)
    \/ \E c \in Callers : CallThrow(c)

ApiSpec == Init /\ [][ApiNext]_vars

\* ------------------------------------- from write results to reload payload
\* A template result entry is an object; <<g, i>> names the one the write
\* pipeline put at position i of group g.  An empty slot is <<>>.
NoEntry == <<>>

\* A group of results, from its slots (TRUE: an entry, FALSE: empty).
GroupOf(g, slots) ==
    [i \in 1..Len(slots) |-> IF slots[i] THEN <<g, i>> ELSE NoEntry]

SlotSeqs == UNION {[1..n -> BOOLEAN] : n \in 0..MaxGroupLen}

\* What writer.write() resolves to: [copyResults, ...templateResults].
WriteResults ==
    UNION { { <<"copy">> \o [g \in 1..n |-> GroupOf(g, slots[g])] :
                slots \in [1..n -> SlotSeqs] } : n \in 0..MaxGroups }

\* The url the write pipeline gave to entry e.
WrittenUrl(e) == <<ToString(e[1]), ToString(e[2])>>

\* The entries of a write result.
EntriesOf(r) == UNION {Range(r[g]) : g \in 2..Len(r)} \ {NoEntry}

\* The normalized path prefixes: "/" and "/blog/".
PathPrefixes == {<<>>, <<"blog">>}

\* array.flat(): the elements of the arrays of a sequence, in order.
RECURSIVE Flat(_)
Flat(groups) ==
    IF groups = <<>> THEN <<>> ELSE Head(groups) \o Flat(Tail(groups))

\* array.filter((entry) => !!entry)
FilterEntries(list) == SelectSeq(list, LAMBDA e : e # NoEntry)

\* executeBuild("fs"), lines 1266-1270: the second element of ret becomes
\* the flattened, filtered template results; the others stay.
FlattenReturn(r) ==
    LET templateResults == Tail(r)
        flat == FilterEntries(Flat(templateResults))
    IN  IF Len(r) >= 2 THEN [r EXCEPT ![2] = flat] ELSE r \o <<flat>>

\* PathPrefixer.joinUrlParts(prefix, url)
joinUrlParts(prefix, url) == prefix \o url

\* The map callback of _watch applied to each element of list in turn: it
\* assigns to the url property of the entry object.
RECURSIVE RewriteUrls(_, _, _)
RewriteUrls(list, prefix, urls) ==
    IF list = <<>> THEN urls
    ELSE RewriteUrls(Tail(list), prefix,
            [urls EXCEPT ![Head(list)] = joinUrlParts(prefix, @)])

\* A write result has just been produced.
ResultInit ==
    /\ InitRest
    /\ gateQueue = <<>>
    /\ ApiIdle
    /\ CacheIdle
    /\ TailIdle
    /\ HandlerIdle
    /\ pathPrefix \in PathPrefixes
    /\ writeRet \in WriteResults
    /\ ebRet = <<>>
    /\ urlOf = [e \in EntriesOf(writeRet) |-> WrittenUrl(e)]
    /\ templates = <<>>
    /\ resultPc = "written"

\* executeBuild: `ret = await promise` resolved; ret is post-processed and
\* returned.
ResultReturn ==
    /\ resultPc = "written"
    /\ ebRet' = FlattenReturn(writeRet)
    /\ resultPc' = "returned"
    /\ UNCHANGED <<pathPrefix, writeRet, urlOf, templates, needsInit,
                   tailVars, handlerVars, coordVars, gateVars, apiVars,
                   cacheVars>>

\* _watch: build.templates of the reload payload is made of writeResults.
ResultPublish ==
    /\ resultPc = "returned"
    /\ LET templateResults == Tail(ebRet)
           list == FilterEntries(Flat(templateResults))
       IN  /\ templates' = list
           /\ urlOf' = RewriteUrls(list, pathPrefix, urlOf)
    /\ resultPc' = "published"
    /\ UNCHANGED <<pathPrefix, writeRet, ebRet, needsInit, tailVars,
                   handlerVars, coordVars, gateVars, apiVars, cacheVars>>

ResultNext == ResultReturn \/ ResultPublish

ResultSpec == ResultInit /\ [][ResultNext]_vars

\* ------------------------------------------------------------------- _cache
\* Faulty variant that restores only the properties the instance lists.
RestoredFieldsListed(c, inst) == DOMAIN c \cap inst.caches

\* for (let cacheKey in c): the properties restored from snapshot c.
RestoredFields(c, inst) == DOMAIN c

\* Faulty variant that never finds a snapshot.
HasSnapshotNever(key) == FALSE

\* this._privateCaches.has(key)
HasSnapshot(key) == key \in DOMAIN privateCaches

\* _cache(key, inst)
_cache(key, inst) ==
    /\ cacheCalls < MaxCacheCalls
    /\ cacheCalls' = cacheCalls + 1
    /\ cacheKey' = key
    /\ cacheArg' = inst
    /\ IF ~inst.declares
       THEN /\ cacheThrew' = TRUE
            /\ cacheInst' = inst
            /\ privateCaches' = privateCaches
       ELSE /\ cacheThrew' = FALSE
            /\ IF HasSnapshot(key)
               THEN LET c == privateCaches[key]
                    IN  /\ cacheInst' =
                              [inst EXCEPT !.props =
                                  [f \in Fields |->
                                      IF f \in RestoredFields(c, inst)
                                      THEN c[f] ELSE inst.props[f]]]
                        /\ privateCaches' = privateCaches
               ELSE LET c == [f \in inst.caches |-> inst.props[f]]
                    IN  /\ cacheInst' = inst
                        /\ privateCaches' =
                              [k \in DOMAIN privateCaches \cup {key} |->
                                  IF k = key THEN c ELSE privateCaches[k]]
    /\ UNCHANGED <<needsInit, tailVars, handlerVars, coordVars, gateVars,
                   apiVars, resultVars>>

CacheNext == \E key \in CacheKeys, inst \in Instances : _cache(key, inst)

CacheSpec == Init /\ [][CacheNext]_vars

\* ------------------------------------------ _watch from write() to the reload

\* watchTargets.reset() with the delta left as it was.
ResetDeltaKeeps(delta) == delta

\* watchTargets.reset(): the "since last reset" delta is emptied; the targets
\* recorded stay.
ResetDelta(delta) == {}

\* The first cycle of a watch: write() has returned, with or without an error
\* in its result; initWatch has recorded targets and any part of them may
\* still be in the delta.
TailInit ==
    /\ InitRest
    /\ gateQueue = <<>>
    /\ ApiIdle
    /\ ResultIdle
    /\ CacheIdle
    /\ HandlerIdle
    /\ allTargets \in SUBSET WatchTargetNames
    /\ newTargets \in SUBSET allTargets
    /\ staleTargets = newTargets
    /\ foundTargets = {}
    /\ handed = <<>>
    /\ wtResets = 0
    /\ tailError \in BOOLEAN
    /\ tailPc = "written"

\* writeResults is destructured unless it carries an error, the incremental
\* file is reset, watchTargets.reset() runs and _initWatchDependencies is
\* awaited.
TailReset ==
    /\ tailPc = "written"
    /\ newTargets' = ResetDelta(newTargets)
    /\ wtResets' = wtResets + 1
    /\ tailPc' = "deps"
    /\ UNCHANGED <<allTargets, staleTargets, foundTargets, handed, tailError,
                   needsInit, coordVars, gateVars, apiVars, resultVars,
                   cacheVars, handlerVars>>

\* _initWatchDependencies has resolved after adding the dependencies deps
\* (none where JavaScript dependencies are not watched); the delta is handed
\* to the watcher.
TailDepsDone(deps) ==
    /\ tailPc = "deps"
    /\ allTargets' = allTargets \cup deps
    /\ newTargets' = newTargets \cup (deps \ allTargets)
    /\ foundTargets' = deps \ allTargets
    /\ handed' = Append(handed, newTargets')
    /\ tailPc' = "added"
    /\ UNCHANGED <<staleTargets, wtResets, tailError, needsInit, coordVars,
                   gateVars, apiVars, resultVars, cacheVars, handlerVars>>

\* The cycle ends and the write() of a later cycle returns.
TailNextCycle(error) ==
    /\ tailPc = "added"
    /\ tailError' = error
    /\ staleTargets' = newTargets
    /\ foundTargets' = {}
    /\ handed' = <<>>
    /\ wtResets' = 0
    /\ tailPc' = "written"
    /\ UNCHANGED <<allTargets, newTargets, needsInit, coordVars, gateVars,
                   apiVars, resultVars, cacheVars, handlerVars>>

TailNext ==
    \/ TailReset
    \/ \E deps \in SUBSET WatchTargetNames : TailDepsDone(deps)
    \/ \E error \in BOOLEAN : TailNextCycle(error)

TailSpec == TailInit /\ [][TailNext]_vars

\* ------------------------------------------------- the watcher's three events

\* watch() has built once, initWatch has resolved, the watcher is open and
\* its handlers are registered; no event was delivered yet.
WatchingInit ==
    /\ os \in Platforms
    /\ graph \in Graphs
    /\ source \in Sources
    /\ pc = "idle"
    /\ caller = "watch"
    /\ needsInit = FALSE
    /\ isActive = FALSE
    /\ activeQueue = {}
    /\ pendingQueue = {}
    /\ timerSet = FALSE
    /\ timerArg = FALSE
    /\ isResetConfig = FALSE
    /\ ret = "ok"
    /\ thrown = "none"
    /\ rethrow = FALSE
    /\ watcher = "open"
    /\ serve = "open"
    /\ log = {}
    /\ sent = "none"
    /\ finishCount = 1
    /\ didReset = FALSE
    /\ inFlight = 0
    /\ notifs = 0
    /\ lastNotif = "none"
    /\ cyclesSince = 0
    /\ burst = {}
    /\ startedBy = "none"
    /\ payload = <<>>
    /\ lastInit = <<>>
    /\ gateDone = FALSE
    /\ gateRet = FALSE
    /\ gateQueue = <<>>
    /\ SideIdle

\* watcher.on("change"): the path is logged and watchRun is awaited.
OnChange(raw) ==
    /\ watchRun(raw)
    /\ lastKind' = "change"
    /\ lastPath' = raw
    /\ UNCHANGED fsIndex

\* watcher.on("add"): the path is logged, entered in the existence index as
\* reported, and watchRun is awaited.
OnAdd(raw) ==
    /\ fsIndex' = fsIndex \cup {raw}
    /\ watchRun(raw)
    /\ lastKind' = "add"
    /\ lastPath' = raw

\* watcher.on("unlink"): the path is taken out of the existence index; the
\* handler ends there.
OnUnlink(raw) ==
    /\ watcher = "open"
    /\ MacrotaskCanRun
    /\ notifs < MaxNotifs
    /\ fsIndex' = fsIndex \ {raw}
    /\ lastKind' = "unlink"
    /\ lastPath' = raw
    /\ notifs' = notifs + 1
    /\ UNCHANGED <<gateVars, apiVars, resultVars, cacheVars, tailVars, payload,
                   lastInit, serve, sent, envVars, pc, ebVars, wmVars,
                   timerVars, cycleVars, thrown, watcher, log, lastNotif,
                   burst>>

HandlerNext ==
    \E raw \in RawPaths :
        \/ OnChange(raw)
        \/ OnAdd(raw)
        \/ OnUnlink(raw)

HandlerSpec == WatchingInit /\ [][HandlerNext]_vars

\* ------------------------------------------------------------------ helpers
\* Every normalized path a notification can put into the queue.
AllNormalized ==
    {NormalizedPath(o, TemplatePathNormalize(o, r)) :
        o \in Platforms, r \in RawPaths}

\* A cycle of _watch is in flight.
InCycle == pc \in CyclePcs \/ (pc \in BuildPcs /\ caller = "_watch")

\* This step starts a cycle.
CycleStarts == cyclesSince' = cyclesSince + 1

\* This step is the regular end of a cycle (line 909 onwards).
CycleFinishes ==
    /\ pc \in {"w_deps", "w_reload"}
    /\ pc' \in {"idle", "w_beforeWatch"}

\* n is a declared config entry or a dependency of one.
IsConfigRelated(g, n) ==
    \/ n \in Range(ConfigFilePaths)
    \/ \E c \in Range(ConfigFilePaths) : n \in getDependenciesOf(g, c)

\* ------------------------------------------------------------------- claims
\* C1: at most one build cycle is in flight at any time; a second cycle
\* never starts before the one in flight has ended, whatever the order of
\* notifications, timer firings, build completions and failures.
C1_OneCycleInFlight ==
    /\ inFlight \in {0, 1}
    /\ InCycle <=> inFlight = 1
    /\ InCycle => isActive

\* C1 witness: a notification arrived during a cycle, its timer fired while
\* the cycle was still in flight, and no cycle was started by it.
C1_Witness ==
    /\ InCycle
    /\ lastNotif = "midbuild"
    /\ ~timerSet
    /\ cyclesSince = 0

\* C2 (as claimed): under fair timers and settling promises, every queued
\* path is eventually in the active queue of a cycle, unless the process
\* was stopped by an unrecognized error.
C2_EveryNotificationBuilt ==
    \A p \in AllNormalized :
        (p \in pendingQueue) ~> (p \in activeQueue \/ pc = "stopped")

\* C3 (as claimed): notifications that arrive while no build runs trigger
\* one cycle, whose active queue is the set of normalized paths of that
\* burst.
C3_BurstOneCycle ==
    /\ (InCycle /\ startedBy = "timer" /\ lastNotif = "idle")
          => activeQueue = burst
    /\ lastNotif = "idle" => cyclesSince <= 1

\* C4 (as claimed): a notification that arrives during a cycle starts no
\* cycle while that one is in flight; when the cycle finishes with a
\* non-empty queue the follow-up starts in the same step and owns the
\* queued paths; and after a mid-build notification the follow-up is the
\* only cycle that starts unless another notification arrives.
C4_MidBuildFollowUp ==
    /\ [][(CycleStarts /\ InCycle) => CycleFinishes]_vars
    /\ [][CycleFinishes =>
            IF pendingQueue # {}
            THEN /\ CycleStarts
                 /\ activeQueue' = pendingQueue
                 /\ pendingQueue' = {}
            ELSE pc' = "idle"]_vars
    /\ [][(CycleStarts /\ lastNotif = "midbuild") => cyclesSince = 0]_vars

\* C5 (as claimed): once the reset decision of a cycle has been carried
\* out, the configuration was reset exactly if the gate is true of the
\* active queue of that cycle.
C5_ResetOnActiveQueue ==
    (InCycle /\ pc \notin {"w_beforeWatch", "w_resetConfig"})
        => (didReset <=> _shouldResetConfig(os, graph, getActiveQueue))

\* C6: _shouldResetConfig(queue) is true exactly if some path of the queue,
\* normalized, is a declared config entry or a dependency of one; it is
\* false for the empty queue and for a queue of paths that only templates
\* depend on.
C6_GateIff ==
    gateDone =>
        /\ gateRet <=>
              \E i \in 1..Len(gateQueue) :
                 IsConfigRelated(graph, NormalizedPath(os, gateQueue[i]))
        /\ gateQueue = <<>> => ~gateRet
        /\ (\A i \in 1..Len(gateQueue) :
               /\ NormalizedPath(os, gateQueue[i])
                     \in getDependenciesOf(graph, Template)
               /\ ~IsConfigRelated(graph, NormalizedPath(os, gateQueue[i])))
              => ~gateRet

\* C6 witness: on win32 a two-path queue whose second path, written with
\* backslashes, is a dependency of the second config entry, gives true.
C6_Witness ==
    /\ gateDone
    /\ gateRet
    /\ os = "win32"
    /\ gateQueue = << <<"a.css">>, <<"src", "\\", "lib.js">> >>

\* C7 (as claimed): whenever no build is running and no timer is pending,
\* the queue is empty, because every cycle that ends, regularly or by a
\* recognized error, is followed at once by a cycle for the queued paths.
C7_IdleImpliesDrained ==
    (watcher = "open" /\ pc = "idle" /\ ~isActive /\ ~timerSet)
        => pendingQueue = {}

\* C8: an error thrown out of a cycle is, if recognized, logged, the flag
\* is cleared and the watcher stays open, and a timer that fires afterwards
\* starts a cycle; any other error is reported as fatal, the watcher is
\* closed, and nothing runs afterwards.
C8_WatchErrorPolicy ==
    /\ [][pc = "w_catch" =>
            IF thrown = "base"
            THEN /\ "error:watch" \in log' /\ "fatal:watch" \notin log'
                 /\ ~isActive' /\ watcher' = "open" /\ serve' = "open"
                 /\ pc' = "idle"
            ELSE /\ "fatal:watch" \in log' /\ serve' = "closed"
                 /\ watcher' = "closed" /\ pc' = "stopped"]_vars
    /\ [][(pc = "idle" /\ "error:watch" \in log /\ timerSet /\ ~timerSet')
            => (CycleStarts /\ activeQueue' = pendingQueue)]_vars
    /\ [][pc # "stopped"]_vars

\* C8 witness: after a recognized error was logged the coordinator is idle,
\* the watcher is open and a later notification has armed the timer.
C8_Witness ==
    /\ pc = "idle"
    /\ "error:watch" \in log
    /\ watcher = "open"
    /\ timerSet
    /\ lastNotif = "idle"

\* C9: when the build pass throws, a programmatic build reports the error
\* and re-raises it to the caller; any other build reports it as fatal,
\* does not re-raise and returns a result carrying the error, and a watch
\* cycle that gets this result runs to its end: the error is forwarded,
\* the flag is cleared or handed to the follow-up, the queue is drained.
C9_BuildErrorPolicy ==
    /\ [][pc = "eb_catch" =>
            IF source = "script"
            THEN "error:writing" \in log' /\ rethrow' /\ thrown' # "none"
            ELSE /\ "fatal:writing" \in log' /\ ~rethrow'
                 /\ ret' = "error" /\ thrown' = "none"]_vars
    /\ [][(pc = "eb_exit" /\ ret = "error") =>
            IF source = "script"
            THEN pc' = (IF caller = "watch" THEN "rejected" ELSE "w_catch")
            ELSE pc' = (IF caller = "watch" THEN "rejected" ELSE "w_deps")]_vars
    /\ [][(pc = "w_deps" /\ ret = "error" /\ pc' # pc) =>
            /\ sent' = "sendError"
            /\ pendingQueue' = {}
            /\ IF pendingQueue = {}
               THEN ~isActive' /\ pc' = "idle"
               ELSE activeQueue' = pendingQueue /\ CycleStarts]_vars

\* C9 witness: a cycle of a CLI build whose pass threw has run to its end:
\* reported as fatal, error forwarded, coordinator idle.
C9_Witness ==
    /\ source = "cli"
    /\ pc = "idle"
    /\ "fatal:writing" \in log
    /\ sent = "sendError"
    /\ ~isActive

\* C10: an executeBuild call that entered its try block has run the
\* finalization step exactly once when it returns or raises, and not
\* before; a re-raised error reaches the caller after finalization.
C10_FinalizedOnce ==
    /\ pc \in {"eb_before", "eb_write", "eb_after", "eb_catch", "eb_finally"}
          => finishCount = 0
    /\ pc = "eb_exit" => finishCount = 1
    /\ (rethrow /\ pc \in {"rejected", "w_catch"}) => finishCount = 1

\* C10 witness: the initial build of a programmatic watch() threw; the
\* error has reached the caller and finalization has run once.
C10_Witness ==
    /\ source = "script"
    /\ pc = "rejected"
    /\ rethrow
    /\ thrown # "none"
    /\ finishCount = 1

C12_SingleFlightInit ==
    /\ initCount <= 1
    /\ \A c \in Callers :
          /\ calls[c].pc = "eb_init" => (initCount = 1 /\ _initing # "unset")
          /\ (calls[c].before > 0 \/ calls[c].wrote > 0)
                => (_initing = "resolved" /\ hasWriter /\ ~needsInit)
          /\ (calls[c].pc = "raised" /\ calls[c].finish = 0)
                => _initing = "rejected"

\* C12 witness: two calls wait for the one init() call, which is still
\* suspended at its last awaited step.
C12_Witness ==
    /\ calls[1].pc = "eb_init" /\ calls[2].pc = "eb_init"
    /\ calls[1].to = "fs" /\ calls[2].to = "ndjson"
    /\ initCount = 1
    /\ initPc = "extensionmap"

\* C13: the publication step of a watch cycle makes exactly one call on
\* the reload layer: sendError, and no reload, when the result carries an
\* error; reload with a payload, and no sendError, otherwise.  No other
\* step calls the reload layer.
C13_ErrorOrReload ==
    /\ [][(pc = "w_deps" /\ pc' # pc) =>
            IF ret = "error"
            THEN sent' = "sendError" /\ payload' = <<>> /\ pc' # "w_reload"
            ELSE sent' = "reload" /\ Len(payload') = 1 /\ pc' = "w_reload"]_vars
    /\ [][(sent' # sent \/ payload' \notin {payload, <<>>})
            => pc = "w_deps"]_vars

\* C13 witness: after a cycle that forwarded an error, a later cycle built
\* without error and its reload call is being awaited.
C13_Witness ==
    /\ pc = "w_reload"
    /\ ret = "ok"
    /\ sent = "reload"
    /\ Len(payload) = 1
    /\ startedBy = "drain"

\* C14: the subtype of the reload payload is "css" exactly if every path of
\* the active queue of the cycle ends with the stylesheet extension and is
\* not under the includes directory; else the payload has no subtype.
C14_CssSubtype ==
    payload # <<>> =>
        /\ payload[1].subtype \in {"css", "undefined"}
        /\ payload[1].subtype = "css" <=>
              \A p \in activeQueue :
                 /\ p[Len(p)] \in CssNames
                 /\ ~StartsWith(p, <<".", "/", "_includes", "/">>)

\* C14 witness: the reload of a cycle whose queue holds one stylesheet
\* outside the includes directory is marked "css".
C14_Witness ==
    /\ pc = "w_reload"
    /\ activeQueue = {<<".", "/", "a.css">>}
    /\ Len(payload) = 1
    /\ payload[1].subtype = "css"

\* C15 (as claimed): the files of the reload payload are the active queue
\* of the cycle, and build.templates holds the non-empty entries of the
\* template results of the write pipeline, flattened, in their order, each
\* once, each with its url prefixed once.
C15_PayloadTemplates ==
    /\ payload # <<>> => payload[1].files = getActiveQueue
    /\ resultPc = "published" =>
          /\ templates = FilterEntries(Flat(Tail(writeRet)))
          /\ \A e \in EntriesOf(writeRet) :
                urlOf[e] = joinUrlParts(pathPrefix, WrittenUrl(e))

\* C16: _cache(key, inst) throws for an instance without a `caches`
\* property and writes nothing; with a snapshot under the key, every
\* property of the snapshot is copied to the instance as it is, the rest of
\* the instance and the snapshot stay; without one, the properties the
\* instance lists are captured under the key, other keys and the instance
\* stay.
C16_CacheRestoreOrCapture ==
    [][cacheCalls' = cacheCalls + 1 =>
         IF ~cacheArg'.declares
         THEN cacheThrew' /\ privateCaches' = privateCaches
         ELSE /\ ~cacheThrew'
              /\ IF cacheKey' \in DOMAIN privateCaches
                 THEN /\ privateCaches' = privateCaches
                      /\ cacheInst'.declares
                      /\ cacheInst'.caches = cacheArg'.caches
                      /\ \A f \in Fields :
                            cacheInst'.props[f] =
                               IF f \in DOMAIN privateCaches[cacheKey']
                               THEN privateCaches[cacheKey'][f]
                               ELSE cacheArg'.props[f]
                 ELSE /\ cacheInst' = cacheArg'
                      /\ DOMAIN privateCaches' =
                            DOMAIN privateCaches \cup {cacheKey'}
                      /\ DOMAIN privateCaches'[cacheKey'] = cacheArg'.caches
                      /\ \A f \in cacheArg'.caches :
                            privateCaches'[cacheKey'][f] = cacheArg'.props[f]
                      /\ \A k \in DOMAIN privateCaches :
                            privateCaches'[k] = privateCaches[k]]_vars

\* C16 witness: a snapshot of two properties was restored onto an instance
\* that lists none of them and held other values.
C16_Witness ==
    /\ cacheCalls = 2
    /\ ~cacheThrew
    /\ cacheKey = "TemplateWriter"
    /\ cacheArg.declares /\ cacheArg.caches = {}
    /\ cacheArg.props = [f \in Fields |-> "v1"]
    /\ cacheInst.props = [f \in Fields |-> "v2"]

\* C17: every init() of a non-reset initialization (the initial build, a
\* cycle without config reset) creates one writer and synchronizes the
\* cache once for it; the init() of a cycle that reset the config creates
\* one writer and does not synchronize.
C17_CarryoverSync ==
    lastInit # <<>> =>
        /\ lastInit[1].writers = 1
        /\ lastInit[1].syncs = IF lastInit[1].viaConfigReset THEN 0 ELSE 1
        /\ caller = "watch" => ~lastInit[1].viaConfigReset
        /\ InCycle => (lastInit[1].viaConfigReset <=> didReset)

\* C17 witness: a cycle that reset the config has created its writer
\* without a cache synchronization and is about to publish.
C17_Witness ==
    /\ pc = "w_reload"
    /\ didReset
    /\ lastInit # <<>>
    /\ lastInit[1].viaConfigReset
    /\ lastInit[1].syncs = 0

\* C18: when the initial build of watch() raises, or returns a result that
\* carries an error, or its initialization fails, watch() rejects; from
\* then on there is no watcher, no notification is handled, no timer is
\* set, no cycle starts, and nothing runs.
C18_FailedInitialBuild ==
    /\ [][(pc = "eb_exit" /\ caller = "watch" /\ (rethrow \/ ret = "error"))
            => pc' = "rejected"]_vars
    /\ [][(pc = "eb_init" /\ thrown' # "none") => pc' = "rejected"]_vars
    /\ [](pc = "rejected" =>
            /\ watcher = "none" /\ notifs = 0 /\ ~timerSet
            /\ ~isActive /\ inFlight = 0 /\ cyclesSince = 0)
    /\ [][pc # "rejected"]_vars

\* C18 witness: the initial build of a CLI watch returned a result with an
\* error after reporting it, and watch() has rejected.
C18_Witness ==
    /\ source = "cli"
    /\ pc = "rejected"
    /\ caller = "watch"
    /\ ret = "error"
    /\ ~rethrow
    /\ watcher = "none"

\* C19 (as claimed): a call that found no writer, or whose target is none
\* of the three, emits no before-build notification, does not invoke the
\* write pipeline and emits no after-build notification.
C19_FatalAbortsAtOnce ==
    \A c \in Callers :
        (calls[c].fatal \/ calls[c].to \notin Targets \cup {"none"})
            => (calls[c].before = 0 /\ calls[c].wrote = 0 /\ calls[c].after = 0)

\* C20 (as claimed): while the listeners of a lifecycle notification run,
\* the emitter does not proceed: no writer exists while a listener of an
\* init notification runs, the write pipeline is not invoked while the
\* before-build listeners run, and finalization waits for the after-build
\* listeners.
C20_NotificationsAwaited ==
    /\ initPc \in {"config", "env", "extensionmap"} => ~hasWriter
    /\ dirListener = "pending" => ~hasWriter
    /\ \A c \in Callers :
          /\ calls[c].pc = "eb_before" => calls[c].wrote = 0
          /\ calls[c].pc = "eb_after" => calls[c].finish = 0
    /\ pc = "w_beforeWatch" => lastInit = <<>>

\* C21 (as claimed): a notification that arrives while a build is running
\* joins the queue and leaves the debounce timer as it is, neither
\* restarting a pending timeout nor setting one; so a timeout that fires
\* was set by a notification that arrived while no build ran.
C21_MidBuildNoTimer ==
    /\ [][(isActive /\ notifs' = notifs + 1) =>
            /\ pendingQueue \subseteq pendingQueue'
            /\ pendingQueue' # {}
            /\ timerSet' = timerSet
            /\ timerArg' = timerArg]_vars
    /\ [][(timerSet /\ ~timerSet') => lastNotif = "idle"]_vars

\* C23: in a cycle called with isResetConfig, the before-watch listeners
\* run first, then resetConfig, then init creates the writer, then the
\* build pass runs, then the reload is published: at each position the
\* earlier steps are done and the later ones are not.
C23_ResetCycleOrder ==
    (InCycle /\ isResetConfig) =>
        /\ pc \in {"w_beforeWatch", "w_resetConfig"}
              => (~didReset /\ lastInit = <<>>)
        /\ pc = "w_init" => (didReset /\ lastInit = <<>>)
        /\ pc \in BuildPcs \cup {"w_deps", "w_reload"}
              => (didReset /\ lastInit # <<>>)
        /\ pc \in {"eb_before", "eb_write"} => (ret = "none" /\ finishCount = 0)
        /\ pc \in {"w_deps", "w_reload"} => (ret # "none" /\ finishCount = 1)
        /\ pc # "w_reload" => payload = <<>>
        /\ pc = "w_reload" => (ret = "ok" /\ payload # <<>>)

\* C23 witness: a cycle started by the timer of a config file notification
\* has reset the config, rebuilt, and awaits its reload.
C23_Witness ==
    /\ pc = "w_reload"
    /\ isResetConfig
    /\ startedBy = "timer"
    /\ didReset
    /\ ret = "ok"
    /\ \E p \in activeQueue : p \in Range(ConfigFilePaths)

\* C26 (as claimed): a cycle that is past the guard of _watch owns a
\* non-empty active queue.
C26_NonEmptyActiveQueue == InCycle => activeQueue # {}

\* C27 (as claimed): the flag is set as long as a cycle has not finished
\* its publication; a notification that arrives while the reload is awaited
\* starts no cycle in its step and counts as a mid-build arrival; when the
\* reload resolves the queued paths go to the follow-up cycle; and a
\* mid-build arrival starts no cycle of its own: a cycle started by a
\* timeout follows a notification that arrived while no build ran.
C27_FlagUntilPublished ==
    /\ [](pc \in {"w_deps", "w_reload"} => isActive)
    /\ [][(pc = "w_reload" /\ notifs' = notifs + 1) =>
            /\ pc' = "w_reload" /\ isActive' /\ ~CycleStarts
            /\ lastNotif' = "midbuild"]_vars
    /\ [][(pc = "w_reload" /\ pc' \notin {"w_reload", "w_catch"}
             /\ pendingQueue # {}) =>
            /\ CycleStarts /\ startedBy' = "drain"
            /\ activeQueue' = pendingQueue]_vars
    /\ [][(CycleStarts /\ startedBy' = "timer") => lastNotif = "idle"]_vars

C29_FailedInitNotRetried ==
    /\ [](initPc = "failed" =>
            /\ _initing = "rejected" /\ needsInit /\ initCount = 1
            /\ ~hasWriter
            /\ \A c \in Callers :
                  /\ calls[c].pc \in {"idle", "eb_init", "raised"}
                  /\ calls[c].before = 0 /\ calls[c].wrote = 0
                  /\ calls[c].finish = 0)
    /\ [][initPc = "failed" => initPc' = "failed"]_vars
    /\ [][\A c \in Callers :
            (initPc = "failed" /\ calls[c].pc = "eb_init"
                /\ calls'[c].pc # "eb_init")
               => (calls'[c].pc = "raised" /\ calls'[c].result = "error")]_vars

\* C29 witness: a call that waited for the init() it started has raised,
\* and a call made after the failure has raised as well.
C29_Witness ==
    /\ initPc = "failed"
    /\ initCount = 1
    /\ calls[1].initAtCall = "unset" /\ calls[1].pc = "raised"
    /\ calls[2].initAtCall = "rejected" /\ calls[2].pc = "raised"
    /\ calls[2].to = "fs"

\* C28: a snapshot stored under a key is never replaced nor removed by a
\* later _cache call, and every later call with that key that does not
\* throw leaves the instance with the values of that first snapshot.
C28_SnapshotWrittenOnce ==
    /\ [][\A k \in DOMAIN privateCaches :
            /\ k \in DOMAIN privateCaches'
            /\ privateCaches'[k] = privateCaches[k]]_vars
    /\ [][(cacheCalls' = cacheCalls + 1 /\ ~cacheThrew'
             /\ cacheKey' \in DOMAIN privateCaches) =>
            \A f \in DOMAIN privateCaches[cacheKey'] :
               cacheInst'.props[f] = privateCaches[cacheKey'][f]]_vars

\* C28 witness: the second call with the key came with an instance that
\* lists both properties and holds other values; the snapshot is still the
\* first one and the instance got its values.
C28_Witness ==
    /\ cacheCalls = 2
    /\ ~cacheThrew
    /\ cacheKey = "TemplateWriter"
    /\ cacheArg.caches = Fields
    /\ cacheArg.props = [f \in Fields |-> "v2"]
    /\ cacheKey \in DOMAIN privateCaches
    /\ privateCaches[cacheKey] = [f \in Fields |-> "v1"]
    /\ cacheInst.props = [f \in Fields |-> "v1"]

\* C25: in a cycle past its build step the "since last reset" delta is cleared
\* exactly once, after write() has returned and before the dependencies are
\* discovered again, and the one set handed to the watcher is the set of
\* targets added since that reset, whether or not the result carries an error.
C25_DeltaResetOncePerCycle ==
    /\ tailPc = "written" => wtResets = 0 /\ handed = <<>>
    /\ tailPc = "deps" => wtResets = 1 /\ newTargets = {} /\ handed = <<>>
    /\ tailPc = "added" => wtResets = 1 /\ handed = <<foundTargets>>

\* C25 witness: the result of write() carried an error, the delta it found
\* was not empty, and the watcher was handed the newly found targets only.
C25_Witness ==
    /\ tailPc = "added"
    /\ tailError
    /\ staleTargets # {}
    /\ foundTargets # {}
    /\ staleTargets \cap foundTargets = {}
    /\ handed = <<foundTargets>>

\* C22 (as claimed): every event of the watcher, whether change, add or
\* unlink, leaves the normalized path in the queue and a timeout pending
\* whose callback carries the reset decision for that path; after an add the
\* path is in the existence index and after an unlink it is not.
C22_EveryKindQueuesAndRestarts ==
    [][notifs' = notifs + 1 =>
        LET path == TemplatePathNormalize(os, lastPath')
        IN  /\ NormalizedPath(os, path) \in pendingQueue'
            /\ timerSet'
            /\ timerArg' = _shouldResetConfig(os, graph, <<path>>)
            /\ lastKind' = "add" => lastPath' \in fsIndex'
            /\ lastKind' = "unlink" => lastPath' \notin fsIndex']_vars

====
